---------------------------- MODULE Spec2Model ----------------------------
(***************************************************************************)
(* A state-machine model of src/js/ui.js: the uiSubscriber mediator, the   *)
(* uiComponent base object, the nav / login / banner components and the    *)
(* createUIComponent factory.  The file holds two variants of the module:  *)
(* the first (lines 1-169) and the hardened one (lines 170-370, with the   *)
(* Rollbar guard and the banner's content fetch).  The variable `variant`  *)
(* selects which of the two is running.                                    *)
(*                                                                         *)
(* Encodings.                                                              *)
(*  - A component object is named by the role it was created for; "other"  *)
(*    stands for any compName that no case of the factory's switch takes.  *)
(*  - componentId null is the number NullId; its property key is "null",   *)
(*    which Object.keys lists after every integer-like key.                *)
(*  - A registry slot is Absent (no such key), Undefined (the key exists   *)
(*    and holds undefined, which is what unsubscribe leaves) or the        *)
(*    component stored there.                                              *)
(*  - A payload is a record of the three fields the handlers read; a field *)
(*    the object literal does not carry reads as undefined: Undef for      *)
(*    username, FALSE for the two flags (both falsy).                      *)
(*  - The DOM is the record `dom`: the d-none class of the form, of the    *)
(*    welcome region and of the logout link, and the textContent of the    *)
(*    welcome region, the headline and the content region.  The markup is  *)
(*    not part of the source; the page is taken to start logged out, and   *)
(*    an anchor that is present is taken to hold its child elements.       *)
(***************************************************************************)
EXTENDS Integers, Sequences, FiniteSets, TLC

VARIABLES
    variant,            \* "first" or "hardened": which module of ui.js runs
    components,         \* uiSubscriber.components: key -> slot
    componentId,        \* per component object: this.componentId
    elem,               \* per component object: this.elem
    componentNotifier,  \* per component object: this.componentNotifier
    status,             \* per component object: how far its init got
    dom,                \* the rendering surface the components write to
    fetching,           \* fetches of ../post.json with no response yet
    parsing,            \* ok responses whose res.json() has not resolved yet
    last                \* what the most recent operation did (observation)

vars == <<variant, components, componentId, elem, componentNotifier, status,
          dom, fetching, parsing, last>>

----------------------------------------------------------------------------
(* Bounds of the model and constants of the program *)

MinId == 1000          \* the smallest identifier Math.random can yield
IdSpan == 3            \* the page draws identifiers from MinId .. MinId+IdSpan-1
MediatorIdSpan == 2    \* identifiers drawn when the mediator is called directly
MaxFetches == 2        \* at most this many content fetches in flight

MaxId == MinId + IdSpan - 1
Ids == MinId .. MaxId
MediatorIds == { id \in Ids : id < MinId + MediatorIdSpan }
NullId == 0
Keys == Ids \cup {NullId}

Variants == {"first", "hardened"}
Roles == {"nav", "login", "banner", "other"}

Absent == "absent"
Undefined == "undefined"
Undef == "<undefined>"

Usernames == {"", "Bob"}
Docs == { [headline |-> "H1", content |-> "C1"],
          [headline |-> "H2", content |-> "C2"] }
NoDoc == [headline |-> Undef, content |-> Undef]

Payloads == { [username |-> "Bob", loggedIn |-> TRUE, loggingOut |-> FALSE],
              [username |-> Undef, loggedIn |-> FALSE, loggingOut |-> TRUE] }
NoPayload == [username |-> Undef, loggedIn |-> FALSE, loggingOut |-> FALSE]

\* JavaScript truthiness of a string-or-undefined value
Truthy(v) == v \notin {Undef, ""}

NoneDelivered == [c \in Roles |-> 0]

----------------------------------------------------------------------------
(* uiSubscriber *)

RECURSIVE IntKeys(_, _)
IntKeys(comps, k) ==
    IF k > MaxId THEN << >>
    ELSE (IF comps[k] # Absent THEN <<k>> ELSE << >>) \o IntKeys(comps, k + 1)

\* Object.keys(this.components): integer-like keys ascending, then "null"
ObjectKeys(comps) ==
    IntKeys(comps, MinId) \o (IF comps[NullId] # Absent THEN <<NullId>> ELSE << >>)

\* !this.components[id] is false: the slot holds a component
Occupied(comps, id) == comps[id] \in Roles

Registered(c) == \E k \in Keys : components[k] = c

subscribe_overwrite(comps, c, id) == [comps EXCEPT ![id] = c]

subscribe(comps, c, id) ==
    IF ~Occupied(comps, id) THEN [comps EXCEPT ![id] = c] ELSE comps

unsubscribe(comps, id) ==
    IF Occupied(comps, id) THEN [comps EXCEPT ![id] = Undefined] ELSE comps

----------------------------------------------------------------------------
(* The listen handlers.  Each takes the DOM and returns the DOM it leaves   *)
(* and whether it threw: a component whose init did not get to bind its     *)
(* child elements dereferences undefined there.                             *)

Bound(c) == status[c] = "ready"

showLogoutLink(d) == [d EXCEPT !.linkHidden = FALSE]
hideLogoutLink_forgotten(d) == d

hideLogoutLink(d) == [d EXCEPT !.linkHidden = TRUE]

logout(d) == [d EXCEPT !.welcomeHidden = TRUE, !.welcomeText = "", !.formHidden = FALSE]

Greeting_default(data) == "Hello world!"

\* data.username ? 'Hello ' + data.username : 'Hello world!'
Greeting(data) ==
    IF Truthy(data.username) THEN "Hello " \o data.username ELSE "Hello world!"

navListen(data, d) ==
    IF data.loggedIn
    THEN IF Bound("nav") THEN [dom |-> showLogoutLink(d), threw |-> FALSE]
                         ELSE [dom |-> d, threw |-> TRUE]
    ELSE [dom |-> d, threw |-> FALSE]

loginListen(data, d) ==
    IF data.loggingOut
    THEN IF Bound("login") THEN [dom |-> logout(d), threw |-> FALSE]
                           ELSE [dom |-> d, threw |-> TRUE]
    ELSE [dom |-> d, threw |-> FALSE]

bannerListen(data, d) ==
    IF Bound("banner")
    THEN [dom |-> [d EXCEPT !.headlineText = Greeting(data)], threw |-> FALSE]
    ELSE [dom |-> d, threw |-> TRUE]

\* uiComponent.listen: console.log only
baseListen(data, d) == [dom |-> d, threw |-> FALSE]

listen(c, data, d) ==
    CASE c = "nav" -> navListen(data, d)
      [] c = "login" -> loginListen(data, d)
      [] c = "banner" -> bannerListen(data, d)
      [] OTHER -> baseListen(data, d)

----------------------------------------------------------------------------
(* uiSubscriber.broadcast *)

ShouldNotify_everyone(senderId, component) == TRUE

\* componentId !== component.componentId
ShouldNotify(senderId, component) == senderId # componentId[component]

\* One pass of `while (len--)`: acc is [dom, delivered, threw].  Reading
\* component.componentId of a slot that holds undefined is a TypeError.
RECURSIVE BroadcastLoop(_, _, _, _, _)
BroadcastLoop(keys, len, senderId, data, acc) ==
    IF len = 0 \/ acc.threw THEN acc
    ELSE LET component == components[keys[len]] IN
         IF component = Undefined
         THEN [acc EXCEPT !.threw = TRUE]
         ELSE IF ShouldNotify(senderId, component)
              THEN LET r == listen(component, data, acc.dom) IN
                   BroadcastLoop(keys, len - 1, senderId, data,
                       [dom |-> r.dom,
                        delivered |-> [acc.delivered EXCEPT ![component] = @ + 1],
                        threw |-> r.threw])
              ELSE BroadcastLoop(keys, len - 1, senderId, data, acc)

broadcast(senderId, data, d) ==
    LET keys == ObjectKeys(components) IN
    BroadcastLoop(keys, Len(keys), senderId, data,
                  [dom |-> d, delivered |-> NoneDelivered, threw |-> FALSE])

----------------------------------------------------------------------------
(* uiComponent and the factory *)

\* document.querySelector of the role's hard-coded selector
Selector(compName) ==
    CASE compName = "nav" -> "#main-nav"
      [] compName = "login" -> "#login-box"
      [] compName = "banner" -> "#banner"
      [] OTHER -> "undefined"

Anchors == {"#main-nav", "#login-box", "#banner"}

\* What initComponent leaves when it runs to the end of its body
Registering(c, e, id) ==
    [elem |-> e, componentId |-> id, componentNotifier |-> "uiSubscriber",
     components |-> subscribe(components, c, id), reports |-> 0]

initComponent_unguarded(c, e, id) == Registering(c, e, id)

\* uiComponent.initComponent on the fresh object c with argument e; id is
\* the value Math.random yields.  The hardened variant throws on a falsy
\* elem, catches it and calls Rollbar.error once.
initComponent(c, e, id) ==
    IF variant = "hardened" /\ e \notin Anchors
    THEN [elem |-> elem[c], componentId |-> componentId[c],
          componentNotifier |-> componentNotifier[c],
          components |-> components, reports |-> 1]
    ELSE Registering(c, e, id)

InitThrows_always(compName, thisElem) == thisElem \notin Anchors

\* The role's init after initComponent: this.elem.querySelector(...) is a
\* TypeError unless this.elem is an element; the base init does nothing more.
InitThrows(compName, thisElem) == compName # "other" /\ thisElem \notin Anchors

\* The page as its markup renders it before any script runs: logged out
LoggedOutPage ==
    [formHidden |-> FALSE, welcomeHidden |-> TRUE, welcomeText |-> "",
     linkHidden |-> TRUE, headlineText |-> "Hello world!", contentText |-> ""]

\* What one operation did.  mid is the DOM at the moment the operation's
\* broadcast returned, before the caller's own statements after it (the
\* initial page for an operation that made no broadcast).  roundTrip counts
\* applied is the response whose content the banner shows: the one applied
\* last, until a broadcast reaches the banner's listen.
\* how far the calls just made on one component have got through
\* subscribe, unsubscribe, subscribe with nothing in between (the first
\* subscribe may be the one initComponent makes).
Observe(op, comp) ==
    [op |-> op, comp |-> comp, anchor |-> FALSE, username |-> Undef,
     broadcasts |-> 0, sender |-> NullId, data |-> NoPayload,
     delivered |-> NoneDelivered, threw |-> FALSE, reports |-> 0,
     ok |-> FALSE, doc |-> NoDoc, mid |-> LoggedOutPage, roundTrip |-> 0,
     applied |-> IF op = "none" THEN NoDoc ELSE last.applied]

\* The applied response that is still on show after a broadcast's deliveries
StillApplied(delivered) ==
    IF delivered["banner"] > 0 THEN NoDoc ELSE last.applied

Init ==
    /\ variant \in Variants
    /\ components = [k \in Keys |-> Absent]
    /\ componentId = [c \in Roles |-> NullId]
    /\ elem = [c \in Roles |-> "null"]
    /\ componentNotifier = [c \in Roles |-> "null"]
    /\ status = [c \in Roles |-> "none"]
    /\ dom = LoggedOutPage
    /\ fetching = 0
    /\ parsing = [doc \in Docs |-> 0]
    /\ last = Observe("none", "other")

\* The elem the factory passes to init: the element its selector finds,
\* null when the document has none, undefined when no case set it
QueryAnchor(compName, present) ==
    IF compName = "other" THEN "undefined"
    ELSE IF present THEN Selector(compName) ELSE "null"

\* createUIComponent(compName), with the anchor present in the document or
\* not, and id the identifier Math.random yields.  When init throws, the
\* factory does not return: the new object survives only if initComponent
\* put it in the registry, otherwise nothing refers to it and the role can
\* be created afresh.
createUIComponent(compName, present, id) ==
    /\ status[compName] = "none"
    /\ \E r \in {initComponent(compName, QueryAnchor(compName, present), id)} :
       LET throws == InitThrows(compName, r.elem)
           kept == ~throws \/ r.components[r.componentId] = compName
       IN /\ elem' = IF kept THEN [elem EXCEPT ![compName] = r.elem] ELSE elem
          /\ componentId' = IF kept
                            THEN [componentId EXCEPT ![compName] = r.componentId]
                            ELSE componentId
          /\ componentNotifier' =
                 IF kept
                 THEN [componentNotifier EXCEPT ![compName] = r.componentNotifier]
                 ELSE componentNotifier
          /\ components' = r.components
          /\ status' = [status EXCEPT ![compName] =
                           IF ~throws THEN "ready"
                           ELSE IF kept THEN "partial" ELSE "none"]
          /\ last' = [Observe("create", compName) EXCEPT
                         !.anchor = (QueryAnchor(compName, present) \in Anchors),
                         !.threw = throws,
                         !.reports = r.reports]
    /\ UNCHANGED <<variant, dom, fetching, parsing>>

----------------------------------------------------------------------------
(* Calls on the mediator made by a holder of a component.  The mediator is  *)
(* reached through the componentNotifier of a component the caller holds:   *)
(* one the factory returned, or one found in the registry.                  *)

Held(c) == status[c] = "ready" \/ Registered(c)
MediatorHeld == \E c \in Roles : Held(c) /\ componentNotifier[c] = "uiSubscriber"

Subscribe(c) ==
    /\ MediatorHeld /\ Held(c)
    /\ components' = subscribe(components, c, componentId[c])
    /\ last' = [Observe("subscribe", c) EXCEPT
                   !.roundTrip = IF last.op = "unsubscribe" /\ last.comp = c
                                    /\ last.roundTrip = 2
                                 THEN 3 ELSE 0]
    /\ UNCHANGED <<variant, componentId, elem, componentNotifier, status, dom,
                   fetching, parsing>>

Unsubscribe(c) ==
    /\ MediatorHeld /\ Held(c)
    /\ components' = unsubscribe(components, componentId[c])
    /\ last' = [Observe("unsubscribe", c) EXCEPT
                   !.roundTrip = IF last.op \in {"subscribe", "create"}
                                    /\ last.comp = c
                                 THEN 2 ELSE 0]
    /\ UNCHANGED <<variant, componentId, elem, componentNotifier, status, dom,
                   fetching, parsing>>

Broadcast(senderId, data) ==
    /\ MediatorHeld
    /\ \E r \in {broadcast(senderId, data, dom)} :
       /\ dom' = r.dom
       /\ last' = [Observe("broadcast", "other") EXCEPT
                      !.broadcasts = 1, !.sender = senderId, !.data = data,
                      !.delivered = r.delivered, !.threw = r.threw,
                      !.mid = r.dom, !.applied = StillApplied(r.delivered)]
    /\ UNCHANGED <<variant, components, componentId, elem, componentNotifier,
                   status, fetching, parsing>>

----------------------------------------------------------------------------
(* loginComponent *)

\* The username field of the payload login() broadcasts: the first variant
\* writes the literal 'Zakir', the hardened one the value of #username.
PayloadUsername(username) == IF variant = "first" THEN "Zakir" ELSE username

LoginPayload(username) ==
    [username |-> PayloadUsername(username), loggedIn |-> TRUE, loggingOut |-> FALSE]

login_unguarded(username, d) ==
    LET r == broadcast(componentId["login"], LoginPayload(username), d) IN
    [dom |-> IF r.threw THEN r.dom
             ELSE [r.dom EXCEPT !.welcomeHidden = FALSE,
                                !.welcomeText = "Welcome " \o username,
                                !.formHidden = TRUE],
     mid |-> r.dom,
     delivered |-> r.delivered, threw |-> r.threw, broadcasts |-> 1]

login_update_first(username, d) ==
    IF Truthy(username)
    THEN LET own == [d EXCEPT !.welcomeHidden = FALSE,
                              !.welcomeText = "Welcome " \o username,
                              !.formHidden = TRUE]
             r == broadcast(componentId["login"], LoginPayload(username), own)
         IN [dom |-> r.dom, mid |-> r.dom,
             delivered |-> r.delivered, threw |-> r.threw, broadcasts |-> 1]
    ELSE [dom |-> d, mid |-> LoggedOutPage, delivered |-> NoneDelivered,
          threw |-> FALSE, broadcasts |-> 0]

\* loginComponent.login with `username` the value of #username.  Returns the
\* broadcast's record, with the DOM as login leaves it; an exception out of
\* broadcast skips the three statements after it.
login(username, d) ==
    IF Truthy(username)
    THEN LET r == broadcast(componentId["login"], LoginPayload(username), d) IN
         [dom |-> IF r.threw THEN r.dom
                  ELSE [r.dom EXCEPT !.welcomeHidden = FALSE,
                                     !.welcomeText = "Welcome " \o username,
                                     !.formHidden = TRUE],
          mid |-> r.dom,
          delivered |-> r.delivered, threw |-> r.threw, broadcasts |-> 1]
    ELSE [dom |-> d, mid |-> LoggedOutPage, delivered |-> NoneDelivered,
          threw |-> FALSE, broadcasts |-> 0]

\* The form's submit listener; it exists once loginComponent.init has run
\* to its end.
Submit(username) ==
    /\ Bound("login")
    /\ \E r \in {login(username, dom)} :
       /\ dom' = r.dom
       /\ last' = [Observe("submit", "login") EXCEPT
                      !.username = username, !.broadcasts = r.broadcasts,
                      !.sender = componentId["login"],
                      !.data = IF r.broadcasts = 1 THEN LoginPayload(username)
                               ELSE NoPayload,
                      !.delivered = r.delivered, !.threw = r.threw,
                      !.mid = r.mid, !.applied = StillApplied(r.delivered)]
    /\ UNCHANGED <<variant, components, componentId, elem, componentNotifier,
                   status, fetching, parsing>>

----------------------------------------------------------------------------
(* navComponent *)

LogoutPayload == [username |-> Undef, loggedIn |-> FALSE, loggingOut |-> TRUE]

\* The click listener of #logout-link
LogoutClick ==
    /\ Bound("nav")
    /\ \E r \in {broadcast(componentId["nav"], LogoutPayload, dom)} :
       /\ dom' = IF r.threw THEN r.dom ELSE hideLogoutLink(r.dom)
       /\ last' = [Observe("logoutClick", "nav") EXCEPT
                      !.broadcasts = 1, !.sender = componentId["nav"],
                      !.data = LogoutPayload, !.delivered = r.delivered,
                      !.threw = r.threw, !.mid = r.dom,
                      !.applied = StillApplied(r.delivered)]
    /\ UNCHANGED <<variant, components, componentId, elem, componentNotifier,
                   status, fetching, parsing>>

----------------------------------------------------------------------------
(* bannerComponent: the content fetch of the hardened variant *)

RECURSIVE SumOver(_, _)
SumOver(f, S) ==
    IF S = {} THEN 0
    ELSE LET x == CHOOSE y \in S : TRUE IN f[x] + SumOver(f, S \ {x})

\* Fetches started whose second callback has not run yet
InFlight == fetching + SumOver(parsing, Docs)

\* The click listener of #learn-more: loadContent starts a fetch
LearnMoreClick ==
    /\ variant = "hardened" /\ Bound("banner")
    /\ InFlight < MaxFetches
    /\ fetching' = fetching + 1
    /\ last' = Observe("learnMore", "banner")
    /\ UNCHANGED <<variant, components, componentId, elem, componentNotifier,
                   status, dom, parsing>>

\* The first then-callback: an ok response goes on to res.json(), whose
\* promise resolves later; any other response makes the callback return
\* undefined, and the second callback, run right after, reads
\* data.headline of undefined: a TypeError nothing catches.
FetchResponse(ok, doc) ==
    /\ fetching > 0
    /\ fetching' = fetching - 1
    /\ parsing' = IF ok THEN [parsing EXCEPT ![doc] = @ + 1] ELSE parsing
    /\ last' = [Observe("response", "banner") EXCEPT
                   !.ok = ok, !.doc = IF ok THEN doc ELSE NoDoc, !.threw = ~ok]
    /\ UNCHANGED <<variant, components, componentId, elem, componentNotifier,
                   status, dom>>

\* fetch itself rejects (no response at all): neither callback runs and
\* the rejection is left unhandled.
FetchReject ==
    /\ fetching > 0
    /\ fetching' = fetching - 1
    /\ last' = [Observe("reject", "banner") EXCEPT !.threw = TRUE]
    /\ UNCHANGED <<variant, components, componentId, elem, componentNotifier,
                   status, dom, parsing>>

applyContent_swapped(d, data) ==
    [d EXCEPT !.headlineText = data.content, !.contentText = data.headline]

applyContent_headlineOnly(d, data) ==
    [d EXCEPT !.headlineText = data.headline]

\* The second then-callback on the parsed JSON
applyContent(d, data) ==
    [d EXCEPT !.headlineText = data.headline, !.contentText = data.content]

JsonParsed(doc) ==
    /\ parsing[doc] > 0
    /\ parsing' = [parsing EXCEPT ![doc] = @ - 1]
    /\ dom' = applyContent(dom, doc)
    /\ last' = [Observe("content", "banner") EXCEPT
                   !.ok = TRUE, !.doc = doc, !.applied = doc]
    /\ UNCHANGED <<variant, components, componentId, elem, componentNotifier,
                   status, fetching>>

----------------------------------------------------------------------------

\* The factory and the events of the page
PageStep ==
    \/ \E compName \in Roles, present \in BOOLEAN, id \in Ids :
           createUIComponent(compName, present, id)
    \/ \E username \in Usernames : Submit(username)
    \/ LogoutClick

\* The content fetch
FetchStep ==
    \/ LearnMoreClick
    \/ \E ok \in BOOLEAN, doc \in Docs : FetchResponse(ok, doc)
    \/ FetchReject
    \/ \E doc \in Docs : JsonParsed(doc)

\* Calls made on the mediator directly
MediatorStep ==
    \/ \E c \in Roles : Subscribe(c)
    \/ \E c \in Roles : Unsubscribe(c)
    \/ \E senderId \in MediatorIds \cup {NullId}, data \in Payloads :
           Broadcast(senderId, data)

Next == PageStep \/ FetchStep

\* The factory on a document that holds every anchor
CreateStep ==
    \E compName \in Roles, id \in MediatorIds : createUIComponent(compName, TRUE, id)

NextMediator == CreateStep \/ MediatorStep

\* The page: the factory, the DOM events and the content fetch
Spec == Init /\ [][Next]_vars

\* The mediator under a client that creates components on a complete
\* document and calls subscribe, unsubscribe and broadcast directly
SpecMediator == Init /\ [][NextMediator]_vars

----------------------------------------------------------------------------
(* Properties *)

PageRoles == {"nav", "login", "banner"}

\* nav, login and banner were all created by the factory on their anchors
PageBuilt == \A c \in PageRoles : Bound(c)

\* C1: a broadcast never invokes the listen handler of a component whose
\* componentId equals the senderId it was called with, whether the call
\* is made directly or by a component's own event handler.
C1_SenderNeverNotified ==
    last.broadcasts = 1 =>
        \A c \in Roles : componentId[c] = last.sender => last.delivered[c] = 0

\* C1 witness: a registered component's identifier was the senderId of a
\* direct broadcast that did reach another component.
C1_Witness ==
    /\ last.op = "broadcast"
    /\ \E c, d \in Roles :
          /\ c # d /\ Registered(c) /\ componentId[c] = last.sender
          /\ last.delivered[c] = 0 /\ last.delivered[d] = 1

\* C2 (as claimed): a broadcast invokes listen exactly once on every
\* registered component other than the sender and on no other component.
C2_ExactlyOnceToRegistered ==
    last.op = "broadcast" =>
        \A c \in Roles :
            last.delivered[c] =
                IF Registered(c) /\ componentId[c] # last.sender THEN 1 ELSE 0

\* C3: subscribe(c), called directly or by initComponent, leaves the
\* registry as it was when the slot of c's identifier holds a component.
C3_OccupiedSlotKept ==
    [][\A c \in Roles :
          (/\ last'.op \in {"subscribe", "create"}
           /\ last'.comp = c
           /\ Occupied(components, componentId'[c]))
          => components' = components]_vars

\* C3 witness: subscribe(c) was called while a different component d with
\* the same identifier held the slot; d still holds it.
C3_Witness ==
    /\ last.op = "subscribe"
    /\ \E d \in Roles :
          /\ d # last.comp
          /\ componentId[d] = componentId[last.comp]
          /\ components[componentId[d]] = d
          /\ ~Registered(last.comp)

\* C4 (as claimed): with nav, login and banner created, whatever their
\* identifiers, a submit with a non-empty username reaches nav's listen
\* and leaves the logout link visible.
C4_LoginReachesNav ==
    (last.op = "submit" /\ Truthy(last.username) /\ PageBuilt) =>
        (last.delivered["nav"] = 1 /\ ~dom.linkHidden)

\* C5 (as claimed): with nav, login and banner created, whatever their
\* identifiers, a click on the logout link reaches login's listen and
\* leaves the form visible, the welcome region hidden and its text empty.
C5_LogoutReachesLogin ==
    (last.op = "logoutClick" /\ PageBuilt) =>
        /\ last.delivered["login"] = 1
        /\ ~dom.formHidden /\ dom.welcomeHidden /\ dom.welcomeText = ""

\* C6: in the hardened variant, creating a component whose anchor is null
\* or undefined calls Rollbar.error exactly once and changes neither the
\* registry nor the object's elem, componentId and componentNotifier,
\* which stay null.
C6_NullAnchorReported ==
    [][(variant = "hardened" /\ last'.op = "create" /\ ~last'.anchor) =>
          /\ last'.reports = 1
          /\ components' = components
          /\ elem' = elem /\ elem'[last'.comp] = "null"
          /\ componentId' = componentId /\ componentId'[last'.comp] = NullId
          /\ componentNotifier' = componentNotifier
          /\ componentNotifier'[last'.comp] = "null"]_vars

\* C6 witness: with another component registered, a component was created
\* without an anchor, the error was reported once and it is not registered.
C6_Witness ==
    /\ variant = "hardened" /\ last.op = "create" /\ ~last.anchor
    /\ last.reports = 1
    /\ ~Registered(last.comp)
    /\ \E d \in Roles : Registered(d)

\* C7: once the parsed JSON of an ok response is applied, the headline
\* text is its headline field and the content text is its content field.
C7_ContentApplied ==
    last.op = "content" =>
        (dom.headlineText = last.doc.headline /\ dom.contentText = last.doc.content)

\* C7 witness: a response was applied over a headline that a login had
\* personalised.
C7_Witness ==
    /\ last.op = "content" /\ last.doc.headline = "H2"
    /\ dom.headlineText = "H2" /\ dom.contentText = "C2"
    /\ dom.formHidden

\* C8 (as claimed): whatever subscribe and unsubscribe calls came before,
\* a broadcast does not throw and reaches every registered component
\* other than the sender.
C8_BroadcastNeverThrows ==
    last.op = "broadcast" =>
        /\ ~last.threw
        /\ \A c \in Roles :
              (Registered(c) /\ componentId[c] # last.sender) => last.delivered[c] = 1

\* C9 (as claimed): in the hardened variant, creating nav, login or banner
\* without its anchor reports the error, raises nothing out of init or
\* createUIComponent and returns the unregistered component.
C9_MissingAnchorContained ==
    (/\ variant = "hardened" /\ last.op = "create"
     /\ last.comp \in PageRoles /\ ~last.anchor) =>
        /\ last.reports = 1
        /\ ~last.threw
        /\ status[last.comp] = "ready" /\ ~Registered(last.comp)

\* C10 (as claimed): in either variant, with nav, login and banner created
\* and registered, a submit with non-empty username u broadcasts
\* {username: u, loggedIn: true}, sets the welcome text to 'Welcome ' + u,
\* shows the welcome region, hides the form, and the headline is 'Hello ' + u.
C10_LoginPayloadCarriesUsername ==
    (/\ last.op = "submit" /\ Truthy(last.username)
     /\ PageBuilt /\ \A c \in PageRoles : Registered(c)) =>
        /\ last.broadcasts = 1
        /\ last.data.username = last.username /\ last.data.loggedIn
        /\ dom.welcomeText = "Welcome " \o last.username
        /\ ~dom.welcomeHidden /\ dom.formHidden
        /\ dom.headlineText = "Hello " \o last.username


\* C11: a submit with an empty username makes no broadcast, runs no
\* listen handler and leaves the whole DOM (form, welcome region and text,
\* logout link, headline) as it was.
C11_EmptySubmitNoOp ==
    [][(last'.op = "submit" /\ last'.username = "") =>
          /\ last'.broadcasts = 0
          /\ last'.delivered = NoneDelivered
          /\ ~last'.threw
          /\ dom' = dom]_vars

\* C11 witness: an empty submit on the built page while a user is logged
\* in (form hidden, logout link shown, headline personalised).
C11_Witness ==
    /\ last.op = "submit" /\ last.username = "" /\ last.broadcasts = 0
    /\ PageBuilt /\ \A c \in PageRoles : Registered(c)
    /\ dom.formHidden /\ ~dom.linkHidden /\ dom.headlineText # "Hello world!"


\* C12 (as claimed): when the fetch resolves with a response that is not
\* ok, the headline and the content keep their text and no error is
\* raised by loadContent's callbacks.
C12_NonOkSilent ==
    [][(last'.op = "response" /\ ~last'.ok) =>
          /\ dom'.headlineText = dom.headlineText
          /\ dom'.contentText = dom.contentText
          /\ ~last'.threw]_vars


\* C13: whenever the banner's listen runs (in the hardened variant; in the
\* first variant, on a banner whose init completed), the headline becomes
\* 'Hello ' + payload.username if the payload has a non-empty username and
\* 'Hello world!' otherwise, and the content region keeps its text.
C13_BannerGreeting ==
    [][(/\ last'.broadcasts = 1 /\ last'.delivered["banner"] = 1
        /\ (variant = "hardened" \/ Bound("banner"))) =>
          /\ dom'.headlineText =
                 IF last'.data.username \in {Undef, ""}
                 THEN "Hello world!"
                 ELSE "Hello " \o last'.data.username
          /\ dom'.contentText = dom.contentText]_vars

\* C13 witness: after a login had personalised the headline and a fetched
\* document had replaced headline and content, a logout notification
\* reset the headline to the default and left the fetched content.
C13_Witness ==
    /\ last.op = "logoutClick" /\ last.delivered["banner"] = 1
    /\ dom.headlineText = "Hello world!" /\ dom.contentText = "C1"
    /\ dom.welcomeText = ""


\* C14: in the hardened variant, createUIComponent with a role name that no
\* case takes returns (without throwing) a component with elem null and no
\* identifier, reports the missing anchor once, leaves the registry and the
\* DOM unchanged, and that component is never registered and never gets a
\* listen call from any later broadcast.
C14_UnknownRole ==
    [][/\ variant = "hardened" =>
             (last'.delivered["other"] = 0 /\ \A k \in Keys : components'[k] # "other")
       /\ (variant = "hardened" /\ last'.op = "create" /\ last'.comp = "other") =>
             /\ ~last'.threw /\ status'["other"] = "ready"
             /\ elem'["other"] = "null" /\ componentId'["other"] = NullId
             /\ componentNotifier'["other"] = "null"
             /\ last'.reports = 1
             /\ components' = components /\ dom' = dom]_vars

\* C14 witness: with the unknown-role component returned, a login submit
\* was broadcast, reached nav and did not reach that component.
C14_Witness ==
    /\ variant = "hardened" /\ status["other"] = "ready"
    /\ ~Registered("other") /\ componentId["other"] = NullId
    /\ last.op = "submit" /\ last.broadcasts = 1
    /\ last.delivered["nav"] = 1 /\ last.delivered["other"] = 0


\* C15: delivery is synchronous and comes before the sender's own update.
\* On a login submit whose broadcast returns, at that moment every
\* recipient's handler has run (logout link shown, headline set) while the
\* form and the welcome region are still as before the submit; only then
\* does login hide the form and show the welcome region.  On a logout
\* click, when the broadcast returns login has restored the form while the
\* logout link is still as before; only then does nav hide the link.
C15_DeliveryBeforeOwnUpdate ==
    [][/\ (last'.op = "submit" /\ last'.broadcasts = 1 /\ ~last'.threw) =>
             /\ last'.delivered["nav"] = 1 => ~last'.mid.linkHidden
             /\ last'.delivered["banner"] = 1 =>
                    last'.mid.headlineText = "Hello " \o last'.data.username
             /\ last'.mid.formHidden = dom.formHidden
             /\ last'.mid.welcomeHidden = dom.welcomeHidden
             /\ last'.mid.welcomeText = dom.welcomeText
             /\ dom'.formHidden /\ ~dom'.welcomeHidden
             /\ dom'.linkHidden = last'.mid.linkHidden
             /\ dom'.headlineText = last'.mid.headlineText
       /\ (last'.op = "logoutClick" /\ ~last'.threw) =>
             /\ last'.delivered["login"] = 1 =>
                    /\ ~last'.mid.formHidden /\ last'.mid.welcomeHidden
                    /\ last'.mid.welcomeText = ""
             /\ last'.mid.linkHidden = dom.linkHidden
             /\ dom'.linkHidden
             /\ dom'.formHidden = last'.mid.formHidden]_vars

\* C15 witness: a submit on the built page; when its broadcast returned
\* the link was already shown and the headline set but the form was still
\* visible, and now the form is hidden.
C15_Witness ==
    /\ last.op = "submit" /\ last.broadcasts = 1 /\ ~last.threw
    /\ last.delivered["nav"] = 1 /\ last.delivered["banner"] = 1
    /\ ~last.mid.linkHidden /\ ~last.mid.formHidden /\ last.mid.welcomeHidden
    /\ dom.formHidden /\ ~dom.welcomeHidden


\* The logout link is visible exactly when the form is hidden, and the form
\* is hidden exactly when the welcome region is visible with some text
SessionInv(d) ==
    /\ ~d.linkHidden <=> d.formHidden
    /\ d.formHidden <=> (~d.welcomeHidden /\ d.welcomeText # "")

\* nav, login and banner each hold the registry slot of their identifier,
\* which makes the three identifiers pairwise distinct
PageRegistered == PageBuilt /\ \A c \in PageRoles : Registered(c)

\* C16: the logged-out start satisfies the session invariant, and with nav,
\* login and banner registered under pairwise distinct identifiers every
\* step (a submit with an empty or non-empty username, a logout click, or
\* any other event) taken from a state that satisfies it leads to a state
\* that satisfies it; so it holds after any sequence of submits and clicks.
C16_SessionInvariant ==
    /\ SessionInv(LoggedOutPage)
    /\ [][(PageRegistered /\ SessionInv(dom)) => SessionInv(dom')]_vars

\* C16 witness: on the page built with distinct identifiers, a user had
\* logged in and out, and a submit has logged a user in again: link shown,
\* form hidden, welcome shown with text.
C16_Witness ==
    /\ PageRegistered /\ SessionInv(dom)
    /\ last.op = "submit" /\ last.username = "Bob"
    /\ ~last.mid.formHidden /\ dom.contentText = "C2"
    /\ ~dom.linkHidden /\ dom.formHidden /\ ~dom.welcomeHidden
    /\ dom.welcomeText = "Welcome Bob"


\* C17 (as claimed): unsubscribe(c) removes only c's own registration:
\* every other component that was registered before the call, in
\* particular one whose identifier c collided with, is registered after it.
C17_UnsubscribeOwnOnly ==
    [][last'.op = "unsubscribe" =>
          \A d \in Roles \ {last'.comp} :
              (\E k \in Keys : components[k] = d) =>
                  (\E k \in Keys : components'[k] = d)]_vars


\* C18 (as claimed): after subscribe(c), unsubscribe(c), subscribe(c) with
\* no other registry call in between, c holds the slot of its identifier,
\* and a broadcast made next, from any other sender and with any payload,
\* invokes c.listen exactly once.
C18_RoundTrip ==
    (last.op = "subscribe" /\ last.roundTrip = 3) =>
        /\ components[componentId[last.comp]] = last.comp
        /\ \A senderId \in Keys \ {componentId[last.comp]}, data \in Payloads :
               broadcast(senderId, data, dom).delivered[last.comp] = 1


\* C19: responses are applied whole.  In every reachable state where the
\* banner has received no broadcast since the last response was applied,
\* whatever the order the outstanding responses resolved in and whatever
\* logins and logouts came between, the headline and the content are both
\* those of that response.
C19_AppliedWhole ==
    last.applied # NoDoc =>
        /\ dom.headlineText = last.applied.headline
        /\ dom.contentText = last.applied.content

\* C19 witness: two fetches were outstanding; the response carrying H1 was
\* applied, a user then logged in without the broadcast reaching the banner,
\* and the response carrying H2 is still being parsed.
C19_Witness ==
    /\ last.op = "submit" /\ last.username = "Bob" /\ last.broadcasts = 1
    /\ last.applied.headline = "H1"
    /\ dom.headlineText = "H1" /\ dom.contentText = "C1"
    /\ parsing[[headline |-> "H2", content |-> "C2"]] > 0
    /\ dom.formHidden

============================================================================
